---- MODULE Spec2Model ----
(***************************************************************************)
(* A model of sabot, a contextual logger with json output.                 *)
(*                                                                         *)
(* Go maps are reference values, so every Fields map lives in a heap       *)
(* (stores, live) and is handled through its reference; a context holds    *)
(* the reference of the map that was stored under LogKey{}.  Strings are   *)
(* byte strings, values of type any are records [t, s] of a dynamic type   *)
(* and a payload.                                                          *)
(***************************************************************************)
EXTENDS Integers, Sequences, FiniteSets, TLC

VARIABLES sabot, stores, live, ctxs, last, procs

vars == <<sabot, stores, live, ctxs, last, procs>>

-----------------------------------------------------------------------------
(* Bounds *)

\* contexts the call chain may derive from its root context
MaxCtx == 2

\* width of the machine integer the model computes MaxLen arithmetic in
IntBits == 16

-----------------------------------------------------------------------------
(* Program constants *)

logErrorKey == "logerror"

truncationNotice == "--truncated--"

keyvalsKey == "keyvals"

-----------------------------------------------------------------------------
(* Values of type any *)

Str(s) == [t |-> "string", s |-> s]

Num(s) == [t |-> "int", s |-> s]

\* a value json.Marshal renders as s (a slice, a map, a struct, a bool)
Obj(s) == [t |-> "obj", s |-> s]

\* a value json.Marshal rejects; s is its type
Chan(s) == [t |-> "chan", s |-> s]

Time(s) == [t |-> "time", s |-> s]

\* a float64; s is the value as strconv prints it: 88.8, NaN, +Inf
Float(s) == [t |-> "float64", s |-> s]

\* the instant t1, t2, ... lies 1, 2, ... nanoseconds past 2023-06-01 12:00 UTC
Nanos(t) == SubSeq(t, 2, 2)

\* fmt's %#v of one value
GoSyntax(v) ==
    CASE v.t = "string" -> "\"" \o v.s \o "\""
      [] v.t = "chan"   -> "(" \o v.s \o ")(0xc000)"
      [] v.t = "time"   -> "time.Date(2023, time.June, 1, 12, 0, 0, " \o Nanos(v.s)
                               \o ", time.UTC)"
      [] OTHER          -> v.s

RECURSIVE GoSyntaxElems(_, _)
GoSyntaxElems(kv, i) ==
    IF i > Len(kv) THEN ""
    ELSE GoSyntax(kv[i]) \o (IF i < Len(kv) THEN ", " ELSE "") \o GoSyntaxElems(kv, i + 1)

\* fmt's %#v of a []any
GoSyntaxSlice(kv) == "[]interface {}{" \o GoSyntaxElems(kv, 1) \o "}"

-----------------------------------------------------------------------------
(* Errors of github.com/pkg/errors, each held as its %+v rendering *)

StackTrace == "\nsabot.newFields\n\tsabot.go"

NilError == [isnil |-> TRUE, text |-> "<nil>"]

Errorf(msg) == [isnil |-> FALSE, text |-> msg \o StackTrace]

Wrapf(err, msg) == [isnil |-> FALSE, text |-> err.text \o "\n" \o msg \o StackTrace]

\* the error json.Marshal returns for an unsupported type
UnsupportedTypeError(v) == [isnil |-> FALSE, text |-> "json: unsupported type: " \o v.s]

-----------------------------------------------------------------------------
(* Machine integers *)

TwoTo(n) == 2 ^ n

MinInt == 0 - TwoTo(IntBits - 1)

WrapInt(n) == ((n + TwoTo(IntBits - 1)) % TwoTo(IntBits)) - TwoTo(IntBits - 1)

-----------------------------------------------------------------------------
(* Fields: map[string]any, as a function from its keys *)

EmptyFields == <<>>

\* fields[key] = val
Put(fields, key, val) == (key :> val) @@ fields

\* delete(fields, key)
Delete(fields, key) == [k \in DOMAIN fields \ {key} |-> fields[k]]

\* for key, val := range src { dst[key] = val }
RangeAssign(dst, src) == src @@ dst

logErrorFields(err, kv) ==
    Put(Put(EmptyFields, logErrorKey, Str(err.text)), keyvalsKey, Str(GoSyntaxSlice(kv)))

PassThrough == {"string", "bytes", "int", "int64", "float64", "time", "duration"}

jsonMarshalValue(obj) ==
    IF obj.t = "chan"
    THEN [data |-> "", err |-> UnsupportedTypeError(obj)]
    ELSE [data |-> obj.s, err |-> NilError]

marshalUnknown(obj) ==
    IF obj.t \in PassThrough
    THEN [val |-> obj, err |-> NilError]
    ELSE LET m == jsonMarshalValue(obj)
         IN IF ~m.err.isnil
            THEN [val |-> Str(logErrorKey),
                  err |-> Wrapf(m.err, "failed to marshal: " \o GoSyntax(obj))]
            ELSE [val |-> Str(m.data), err |-> NilError]

\* the loop keeping the pairs read before a key that is not a string
RECURSIVE newFieldsLoop_keepPairs(_, _, _)
newFieldsLoop_keepPairs(kv, i, fields) ==
    IF i > Len(kv) THEN fields
    ELSE IF kv[i].t # "string"
         THEN RangeAssign(fields,
                  logErrorFields(Errorf("non-string field key: " \o GoSyntax(kv[i])), kv))
         ELSE LET key == kv[i].s
                  m   == marshalUnknown(kv[i + 1])
                  set == Put(fields, key, m.val)
              IN IF ~m.err.isnil
                 THEN newFieldsLoop_keepPairs(kv, i + 2,
                          RangeAssign(Delete(set, key), logErrorFields(m.err, kv)))
                 ELSE newFieldsLoop_keepPairs(kv, i + 2, set)

\* the loop giving up at the first value that cannot be marshalled
RECURSIVE newFieldsLoop_giveUp(_, _, _)
newFieldsLoop_giveUp(kv, i, fields) ==
    IF i > Len(kv) THEN fields
    ELSE IF kv[i].t # "string"
         THEN logErrorFields(Errorf("non-string field key: " \o GoSyntax(kv[i])), kv)
         ELSE LET key == kv[i].s
                  m   == marshalUnknown(kv[i + 1])
                  set == Put(fields, key, m.val)
              IN IF ~m.err.isnil
                 THEN logErrorFields(m.err, kv)
                 ELSE newFieldsLoop_giveUp(kv, i + 2, set)

\* the loop of newFields from (1-based) index i on, fields built so far
RECURSIVE newFieldsLoop(_, _, _)
newFieldsLoop(kv, i, fields) ==
    IF i > Len(kv) THEN fields
    ELSE IF kv[i].t # "string"
         THEN logErrorFields(Errorf("non-string field key: " \o GoSyntax(kv[i])), kv)
         ELSE LET key == kv[i].s
                  m   == marshalUnknown(kv[i + 1])
                  set == Put(fields, key, m.val)
              IN IF ~m.err.isnil
                 THEN newFieldsLoop(kv, i + 2,
                          RangeAssign(Delete(set, key), logErrorFields(m.err, kv)))
                 ELSE newFieldsLoop(kv, i + 2, set)

newFields(kv) ==
    IF Len(kv) % 2 # 0
    THEN logErrorFields(Errorf("cannot create fields from odd count"), kv)
    ELSE newFieldsLoop(kv, 1, EmptyFields)

-----------------------------------------------------------------------------
(* The heap of Fields maps *)

StoreIds == 1 .. (MaxCtx + 6)

Heap(st, lv) == [stores |-> st, live |-> lv]

\* Fields{} and map literals: a fresh map, at the first free reference
Alloc(h, fields) ==
    LET free == StoreIds \ h.live
        id   == CHOOSE i \in free : \A j \in free : i <= j
    IN [h   |-> Heap([h.stores EXCEPT ![id] = fields], h.live \cup {id}),
        ref |-> id]

\* maps no context refers to any longer are collected
Collect(h, keep) ==
    Heap([i \in StoreIds |-> IF i \in keep THEN h.stores[i] ELSE EmptyFields], keep)

-----------------------------------------------------------------------------
(* Contexts: what ctx.Value(LogKey{}) yields *)

NilValue == [kind |-> "nil", ref |-> 0, other |-> Str("")]

FieldsValue(ref) == [kind |-> "Fields", ref |-> ref, other |-> Str("")]

OtherValue(v) == [kind |-> "other", ref |-> 0, other |-> v]

\* getFields taking a foreign value for no value
getFields_foreignEmpty(h, val) ==
    IF val.kind = "Fields" THEN [h |-> h, ref |-> val.ref] ELSE Alloc(h, EmptyFields)

\* the reference of the map getFields returns: the stored map itself, or a fresh one
getFields(h, val) ==
    IF val.kind = "nil" THEN Alloc(h, EmptyFields)
    ELSE IF val.kind = "Fields" THEN [h |-> h, ref |-> val.ref]
    ELSE Alloc(h, Put(EmptyFields, logErrorKey,
                      Str("failed to assert type Fields on " \o GoSyntax(val.other))))

\* copyFields handing out the stored map itself
copyFields_shared(h, val) == getFields(h, val)

copyFields(h, val) ==
    LET g  == getFields(h, val)
        cp == Alloc(g.h, EmptyFields)
    IN [h   |-> [cp.h EXCEPT !.stores[cp.ref] =
                     RangeAssign(cp.h.stores[cp.ref], cp.h.stores[g.ref])],
        ref |-> cp.ref]

\* withFields answering a malformed list with the diagnostic fields alone
withFields_diagOnly(h, val, kv) ==
    LET fields   == copyFields(h, val)
        kvFields == Alloc(fields.h, newFields(kv))
        h2       == [kvFields.h EXCEPT !.stores[fields.ref] =
                        IF logErrorKey \in DOMAIN kvFields.h.stores[kvFields.ref]
                        THEN kvFields.h.stores[kvFields.ref]
                        ELSE RangeAssign(kvFields.h.stores[fields.ref],
                                         kvFields.h.stores[kvFields.ref])]
    IN [h |-> h2, val |-> FieldsValue(fields.ref)]

\* withFields letting the fields of the context win over the list
withFields_ctxWins(h, val, kv) ==
    LET fields   == copyFields(h, val)
        kvFields == Alloc(fields.h, newFields(kv))
        h2       == [kvFields.h EXCEPT !.stores[fields.ref] =
                        RangeAssign(kvFields.h.stores[kvFields.ref],
                                    kvFields.h.stores[fields.ref])]
    IN [h |-> h2, val |-> FieldsValue(fields.ref)]

\* the heap after withFields and the value stored under LogKey{} in the new context
withFields(h, val, kv) ==
    LET fields   == copyFields(h, val)
        kvFields == Alloc(fields.h, newFields(kv))
        h2       == [kvFields.h EXCEPT !.stores[fields.ref] =
                        RangeAssign(kvFields.h.stores[fields.ref],
                                    kvFields.h.stores[kvFields.ref])]
    IN [h |-> h2, val |-> FieldsValue(fields.ref)]

\* truncate cutting at maxLen, the notice not accounted for
truncate_noAccount(h, ref, maxLen) ==
    LET max == WrapInt(maxLen - Len(truncationNotice))
        f   == h.stores[ref]
    IN IF max < 1 THEN h
       ELSE [h EXCEPT !.stores[ref] =
                [k \in DOMAIN f |->
                    IF f[k].t = "string" /\ maxLen < Len(f[k].s)
                    THEN Str(SubSeq(f[k].s, 1, maxLen) \o truncationNotice)
                    ELSE f[k]]]

\* truncate with its guard one off: a limit of 0 passes
truncate_guardOneOff(h, ref, maxLen) ==
    LET max == WrapInt(maxLen - Len(truncationNotice))
        f   == h.stores[ref]
    IN IF max < 0 THEN h
       ELSE [h EXCEPT !.stores[ref] =
                [k \in DOMAIN f |->
                    IF f[k].t = "string" /\ max < Len(f[k].s)
                    THEN Str(SubSeq(f[k].s, 1, max) \o truncationNotice)
                    ELSE f[k]]]

\* Fields.truncate, in place on the map at ref
truncate(h, ref, maxLen) ==
    LET max == WrapInt(maxLen - Len(truncationNotice))
        f   == h.stores[ref]
    IN IF max < 1 THEN h
       ELSE [h EXCEPT !.stores[ref] =
                [k \in DOMAIN f |->
                    IF f[k].t = "string" /\ max < Len(f[k].s)
                    THEN Str(SubSeq(f[k].s, 1, max) \o truncationNotice)
                    ELSE f[k]]]

\* log letting the call-site list win over the fields of the context
log_kvWins(h, sb, val, level, msg, kv, now) ==
    LET ctxFields == getFields(h, val)
        fields    == Alloc(ctxFields.h, newFields(kv))
        h1        == [fields.h EXCEPT !.stores[fields.ref] =
                         RangeAssign(fields.h.stores[ctxFields.ref],
                                     fields.h.stores[fields.ref])]
        h2        == [h1 EXCEPT !.stores[fields.ref] =
                         Put(Put(Put(h1.stores[fields.ref], "msg", Str(msg)),
                                 "level", Str(level)), "ts", Time(now))]
        h3        == truncate(h2, fields.ref, sb.MaxLen)
    IN [h         |-> h3,
        ctxFields |-> ctxFields.h.stores[ctxFields.ref],
        merged    |-> h2.stores[fields.ref],
        emitted   |-> h3.stores[fields.ref]]

\* log setting the reserved fields before it merges the fields of the context
log_reservedFirst(h, sb, val, level, msg, kv, now) ==
    LET ctxFields == getFields(h, val)
        fields    == Alloc(ctxFields.h, newFields(kv))
        h1        == [fields.h EXCEPT !.stores[fields.ref] =
                         Put(Put(Put(fields.h.stores[fields.ref], "msg", Str(msg)),
                                 "level", Str(level)), "ts", Time(now))]
        h2        == [h1 EXCEPT !.stores[fields.ref] =
                         RangeAssign(h1.stores[fields.ref], h1.stores[ctxFields.ref])]
        h3        == truncate(h2, fields.ref, sb.MaxLen)
    IN [h         |-> h3,
        ctxFields |-> ctxFields.h.stores[ctxFields.ref],
        merged    |-> h2.stores[fields.ref],
        emitted   |-> h3.stores[fields.ref]]

\* Sabot.log up to the marshalling: the heap, the merged map before and after truncation
log(h, sb, val, level, msg, kv, now) ==
    LET ctxFields == getFields(h, val)
        fields    == Alloc(ctxFields.h, newFields(kv))
        h1        == [fields.h EXCEPT !.stores[fields.ref] =
                         RangeAssign(fields.h.stores[fields.ref],
                                     fields.h.stores[ctxFields.ref])]
        h2        == [h1 EXCEPT !.stores[fields.ref] =
                         Put(Put(Put(h1.stores[fields.ref], "msg", Str(msg)),
                                 "level", Str(level)), "ts", Time(now))]
        h3        == truncate(h2, fields.ref, sb.MaxLen)
    IN [h         |-> h3,
        ctxFields |-> ctxFields.h.stores[ctxFields.ref],
        merged    |-> h2.stores[fields.ref],
        emitted   |-> h3.stores[fields.ref]]

-----------------------------------------------------------------------------
(* Marshalling and writing: Sabot.log from json.Marshal on *)

\* the float64 values encoding/json refuses
NonFinite == {"NaN", "+Inf", "-Inf"}

\* the error json.Marshal returns for such a value
UnsupportedValueError(v) == [isnil |-> FALSE, text |-> "json: unsupported value: " \o v.s]

\* time.Time's MarshalJSON: RFC 3339 with nanoseconds
RFC3339Nano(t) == "2023-06-01T12:00:00.00000000" \o Nanos(t) \o "Z"

\* a JSON string, held by the string it decodes to
JString(s) == [j |-> "string", s |-> s]

\* a JSON number, held by its digits
JNumber(s) == [j |-> "number", s |-> s]

\* the JSON value json.Marshal writes for one value of a Fields map; a []byte
\* is held by its base64 text
jsonValue(v) ==
    CASE v.t = "string" -> JString(v.s)
      [] v.t = "time"   -> JString(RFC3339Nano(v.s))
      [] v.t = "bytes"  -> JString(v.s)
      [] OTHER          -> JNumber(v.s)

\* the keys whose value json.Marshal gives up on
Rejected(fields) ==
    { k \in DOMAIN fields :
        fields[k].t = "chan" \/ (fields[k].t = "float64" /\ fields[k].s \in NonFinite) }

\* json.Marshal(fields): the members of the JSON object by key, or the error
jsonMarshal(fields) ==
    LET bad == Rejected(fields)
    IN IF bad # {}
       THEN LET v == fields[CHOOSE k \in bad : TRUE]
            IN [data |-> <<>>,
                err  |-> IF v.t = "chan" THEN UnsupportedTypeError(v)
                         ELSE UnsupportedValueError(v)]
       ELSE [data |-> [k \in DOMAIN fields |-> jsonValue(fields[k])], err |-> NilError]

\* fmt's %#v of a Fields map: sabot.Fields{...}, the entries by key
GoSyntaxFields(fields) ==
    [k \in DOMAIN fields |-> [j |-> "gosyntax", s |-> GoSyntax(fields[k])]]

\* the bytes handed to a sink: the text before the entries, the entries, the text after
Line(form, pre, body, post) == [form |-> form, pre |-> pre, body |-> body, post |-> post]

\* no sink: the nil io.Writer
NoWriter == "nil"

\* the sinks: a bytes.Buffer takes what it is given, a failWriter returns an error
Writers == {"bytes.Buffer", "failWriter"}

\* the error of failWriter
WriteError == [isnil |-> FALSE, text |-> "oops"]

\* w.Write(p): a method call on the nil interface panics
Write(w, p) ==
    CASE w = NoWriter     -> [panic |-> TRUE, err |-> NilError]
      [] w = "failWriter" -> [panic |-> FALSE, err |-> WriteError]
      [] OTHER            -> [panic |-> FALSE, err |-> NilError]

\* the document log hands to Writer: the marshalled fields, or the hand-built one
logData(fields) ==
    LET m == jsonMarshal(fields)
    IN IF ~m.err.isnil
       THEN Line("fallback",
                 "{\"logerror\": \"" \o Wrapf(m.err, "failed to marshal log message").text
                     \o "\", \"msg\": \"sabot.Fields{",
                 GoSyntaxFields(fields), "}\"}\n")
       ELSE Line("json", "{", m.data, "}\n")

\* the line log hands to AltWriter
logAltLine(err, fields) ==
    Line("alt", logErrorKey \o ": " \o Wrapf(err, "failed to write").text
                    \o " with fields sabot.Fields{",
         GoSyntaxFields(fields), "}\n")

\* log falling back when the write succeeded
logWrite_altOnSuccess(sb, fields) ==
    LET data  == logData(fields)
        w     == Write(sb.Writer, data)
        first == <<[sink |-> "Writer", line |-> data]>>
    IN IF w.panic THEN [writes |-> first, panic |-> TRUE]
       ELSE IF w.err.isnil /\ sb.AltWriter # NoWriter
            THEN LET line == logAltLine(w.err, fields)
                 IN [writes |-> first \o <<[sink |-> "AltWriter", line |-> line]>>,
                     panic  |-> Write(sb.AltWriter, line).panic]
            ELSE [writes |-> first, panic |-> FALSE]

\* log falling back without asking whether there is an AltWriter
logWrite_noNilCheck(sb, fields) ==
    LET data  == logData(fields)
        w     == Write(sb.Writer, data)
        first == <<[sink |-> "Writer", line |-> data]>>
    IN IF w.panic THEN [writes |-> first, panic |-> TRUE]
       ELSE IF ~w.err.isnil
            THEN LET line == logAltLine(w.err, fields)
                 IN [writes |-> first \o <<[sink |-> "AltWriter", line |-> line]>>,
                     panic  |-> Write(sb.AltWriter, line).panic]
            ELSE [writes |-> first, panic |-> FALSE]

\* Sabot.log from the marshalling on: the Write calls in order, and whether one panicked
logWrite(sb, fields) ==
    LET data  == logData(fields)
        w     == Write(sb.Writer, data)
        first == <<[sink |-> "Writer", line |-> data]>>
    IN IF w.panic THEN [writes |-> first, panic |-> TRUE]
       ELSE IF ~w.err.isnil /\ sb.AltWriter # NoWriter
            THEN LET line == logAltLine(w.err, fields)
                 IN [writes |-> first \o <<[sink |-> "AltWriter", line |-> line]>>,
                     panic  |-> Write(sb.AltWriter, line).panic]
            ELSE [writes |-> first, panic |-> FALSE]

-----------------------------------------------------------------------------
(* Inputs *)

LongString == "a-long-winded-string"

\* key-value lists handed to WithFields
WithFieldsKvs ==
    { <<Str("foo"), Str("bar")>>,
      <<Str("app_id"), Str("producto"), Str("level"), Str("warn21"),
        Str("msg"), Str("ctxmsg"), Str("ts"), Str("ctxts")>>,
      <<Str("foo"), Str("bar"), Str("odd")>>,
      <<Num("88"), Str("bar")>>,
      <<Str("big"), Str(LongString)>>,
      <<Str("app_id"), Str("one"), Str("app_id"), Obj("[\"bar\"]")>> }

\* key-value lists handed to Info and Error
LogKvs ==
    { <<>>,
      <<Str("foo"), Str("baz"), Str("app_id"), Str("kvapp"), Str("level"), Str("warn22"),
        Str("ts"), Str("kvts"), Str("huge"), Str(LongString)>>,
      <<Str("foo"), Str("bar"), Str("odd")>>,
      <<Str("foo"), Str("bar"), Num("88"), Str("baz")>>,
      <<Str("a"), Num("777"), Str("foo"), Chan("chan int"), Str("b"), Obj("{\"One\":1}")>>,
      <<Str("foo"), Chan("chan int"), Str("foo"), Str("bar")>>,
      <<Str("logerror"), Str("mine"), Str("foo"), Chan("chan int")>> }

\* the key-value list of the root context: WithFields(context.Background(), RootKv...)
RootKv == <<Str("app_id"), Str("testo"), Str("worker_id"), Str("1234asdf")>>

\* values a foreign writer stores under LogKey{}
ForeignValues == { Str("garbage") }

Msgs == { "a noteworthy occurrence" }

Errs == { NilError, [isnil |-> FALSE, text |-> "oops"] }

Times == { "t1", "t2" }

MaxLens == { MinInt, 0, 13, 14, 16 }

-----------------------------------------------------------------------------
(* State *)

Background == [val |-> NilValue, parent |-> 0, by |-> "Background", kv |-> <<>>]

NoCall ==
    [op |-> "none", ctx |-> 0, kv |-> <<>>, msg |-> "", level |-> "", err |-> NilError,
     now |-> "", ctxFields |-> EmptyFields, built |-> EmptyFields,
     merged |-> EmptyFields, emitted |-> EmptyFields,
     writes |-> <<>>, panic |-> FALSE, before |-> <<>>, after |-> <<>>]

\* the fields a caller reads through GetFields(cs[c]) in the heap (st, lv)
FieldsAt(st, lv, cs, c) ==
    LET g == getFields(Heap(st, lv), cs[c].val) IN g.h.stores[g.ref]

FieldsOf(c) == FieldsAt(stores, live, ctxs, c)

\* the maps some context refers to
Referenced(cs) == { cs[c].val.ref : c \in { d \in 1 .. Len(cs) : cs[d].val.kind = "Fields" } }

\* the call chains that run concurrently from the root context
Chains == {1, 2}

\* the index of the root context in ctxs
RootCtx == 2

\* a chain between two calls, ctxs[c] its current context
IdleProc(c) ==
    [pc |-> "idle", cur |-> c, made |-> {}, op |-> "none", kv |-> <<>>, level |-> "",
     msg |-> "", now |-> "", fields |-> 0, ctxFields |-> 0,
     seen |-> EmptyFields, merged |-> EmptyFields]

\* the logger is constructed and the root context is derived from context.Background()
Init ==
    /\ sabot \in [MaxLen : MaxLens, Writer : {"bytes.Buffer"}, AltWriter : {NoWriter},
                  EnableDebug : {FALSE}, EnableTrace : {FALSE}]
    /\ \E r \in {withFields(Heap([i \in StoreIds |-> EmptyFields], {}), NilValue, RootKv)} :
       \E cs \in {<<Background, [val |-> r.val, parent |-> 1, by |-> "WithFields", kv |-> RootKv]>>} :
       \E h \in {Collect(r.h, Referenced(cs))} :
          /\ ctxs = cs
          /\ stores = h.stores
          /\ live = h.live
    /\ last = NoCall
    /\ procs = [p \in Chains |-> IdleProc(RootCtx)]

\* ctx = lgr.WithFields(ctx, kv...), ctx the newest context ctxs[c] of the chain
WithFields(c, kv) ==
    /\ c = Len(ctxs)
    /\ Len(ctxs) < MaxCtx + 2
    /\ \E r \in {withFields(Heap(stores, live), ctxs[c].val, kv)} :
       \E cs \in {Append(ctxs, [val |-> r.val, parent |-> c, by |-> "WithFields", kv |-> kv])} :
       \E h \in {Collect(r.h, Referenced(cs))} :
          /\ ctxs' = cs
          /\ stores' = h.stores
          /\ live' = h.live
          /\ last' = [NoCall EXCEPT !.op = "WithFields", !.ctx = c, !.kv = kv,
                          !.ctxFields = FieldsOf(c), !.built = newFields(kv)]
    /\ UNCHANGED <<sabot, procs>>

\* ctx = context.WithValue(ctx, LogKey{}, v), by a foreign writer
WithValue(c, v) ==
    /\ c = Len(ctxs)
    /\ Len(ctxs) < MaxCtx + 2
    /\ ctxs' = Append(ctxs, [val |-> OtherValue(v), parent |-> c, by |-> "WithValue", kv |-> <<>>])
    /\ last' = [NoCall EXCEPT !.op = "WithValue", !.ctx = c]
    /\ UNCHANGED <<sabot, stores, live, procs>>

\* fields = lgr.GetFields(ctxs[c])
GetFields(c) ==
    /\ \E g \in {getFields(Heap(stores, live), ctxs[c].val)} :
       \E h \in {Collect(g.h, Referenced(ctxs))} :
          /\ stores' = h.stores
          /\ live' = h.live
          /\ last' = [NoCall EXCEPT !.op = "GetFields", !.ctx = c,
                          !.ctxFields = g.h.stores[g.ref]]
    /\ UNCHANGED <<sabot, ctxs, procs>>

\* the state change of one emission: kv is the caller's list, logkv the list log
\* is given, before and after the caller's backing array before and after the call
Emit(op, c, level, msg, err, kv, logkv, now, before, after) ==
    /\ \E r \in {log(Heap(stores, live), sabot, ctxs[c].val, level, msg, logkv, now)} :
       \E w \in {logWrite(sabot, r.emitted)} :
       \E h \in {Collect(r.h, Referenced(ctxs))} :
          /\ stores' = h.stores
          /\ live' = h.live
          /\ last' = [op |-> op, ctx |-> c, kv |-> kv, msg |-> msg, level |-> level,
                      err |-> err, now |-> now, ctxFields |-> r.ctxFields,
                      built |-> newFields(logkv), merged |-> r.merged,
                      emitted |-> r.emitted, writes |-> w.writes, panic |-> w.panic,
                      before |-> before, after |-> after]
    /\ UNCHANGED <<sabot, ctxs, procs>>

\* lgr.Info(ctxs[c], msg, kv...)
Info(c, msg, kv, now) == Emit("Info", c, "info", msg, NilError, kv, kv, now, kv, kv)

\* the nil interface value
NilAny == [t |-> "nil", s |-> "interface {}(nil)"]

\* the caller's backing array: the list and spare elements beyond its length
Backing(kv, spare) == kv \o [i \in 1 .. spare |-> NilAny]

\* append(arr[:n], elems...): in place when the capacity suffices, else into a
\* new array
append(arr, n, elems) ==
    IF n + Len(elems) <= Len(arr)
    THEN [arr     |-> SubSeq(arr, 1, n) \o elems \o SubSeq(arr, n + Len(elems) + 1, Len(arr)),
          len     |-> n + Len(elems),
          inplace |-> TRUE]
    ELSE [arr |-> SubSeq(arr, 1, n) \o elems, len |-> n + Len(elems), inplace |-> FALSE]

\* lgr.Error(ctxs[c], msg, err, kv...), kv a slice with spare elements of capacity
Error(c, msg, err, kv, spare, now) ==
    \E a \in {append(Backing(kv, spare), Len(kv), <<Str("error"), Str(err.text)>>)} :
        Emit("Error", c, "error", msg, err, kv, SubSeq(a.arr, 1, a.len), now,
             Backing(kv, spare), IF a.inplace THEN a.arr ELSE Backing(kv, spare))

\* a call that returns at once: nothing is read, built or written
Skip(op, c, msg, kv) ==
    /\ last' = [NoCall EXCEPT !.op = op, !.ctx = c, !.kv = kv, !.msg = msg,
                              !.before = kv, !.after = kv]
    /\ UNCHANGED <<sabot, stores, live, ctxs, procs>>

\* lgr.Debug(ctxs[c], msg, kv...)
Debug(c, msg, kv, now) ==
    IF sabot.EnableDebug
    THEN Emit("Debug", c, "debug", msg, NilError, kv, kv, now, kv, kv)
    ELSE Skip("Debug", c, msg, kv)

\* lgr.Trace(ctxs[c], msg, kv...)
Trace(c, msg, kv, now) ==
    IF sabot.EnableTrace
    THEN Emit("Trace", c, "trace", msg, NilError, kv, kv, now, kv, kv)
    ELSE Skip("Trace", c, msg, kv)

\* the call returns and the caller is ready for its next call
Return ==
    /\ last.op # "none"
    /\ last' = NoCall
    /\ UNCHANGED <<sabot, stores, live, ctxs, procs>>

\* no call is in flight
Ready == last.op = "none"

Next ==
    \/ Return
    \/ Ready /\ \E c \in 1 .. Len(ctxs), kv \in WithFieldsKvs : WithFields(c, kv)
    \/ Ready /\ \E c \in 1 .. Len(ctxs), v \in ForeignValues : WithValue(c, v)
    \/ Ready /\ \E c \in 1 .. Len(ctxs) : GetFields(c)
    \/ Ready /\ \E c \in 1 .. Len(ctxs), msg \in Msgs, kv \in LogKvs, now \in Times :
                    Info(c, msg, kv, now)
    \/ Ready /\ \E c \in 1 .. Len(ctxs), msg \in Msgs, err \in Errs, kv \in LogKvs,
                    now \in Times : Error(c, msg, err, kv, 0, now)

Spec == Init /\ [][Next]_vars

-----------------------------------------------------------------------------
(* Concurrent call chains: each chain runs withFields and log step by step on *)
(* its own current context, all chains starting from the root context         *)

ChainTag(p) == "chain" \o ToString(p)

PrivateKey(p) == "req" \o ToString(p)

\* key-value lists chain p hands to WithFields: a key of its own, a key of the
\* root context
ChainKvs(p) ==
    { <<Str(PrivateKey(p)), Str(ChainTag(p))>>,
      <<Str("app_id"), Str(ChainTag(p))>> }

\* key-value lists chain p hands to Info and Error
ChainLogKvs(p) == { <<>>, <<Str("call"), Str(ChainTag(p)), Str("app_id"), Str("kvapp")>> }

ConcMaxLens == { 0, 16 }

ConcErrs == { e \in Errs : ~e.isnil }

ConcTimes == { "t1" }

\* the maps the calls in flight of the chains other than p hold
OtherTemps(p) ==
    UNION { {procs[q].fields, procs[q].ctxFields} : q \in Chains \ {p} } \ {0}

InitConc ==
    /\ sabot \in [MaxLen : ConcMaxLens, Writer : {"bytes.Buffer"}, AltWriter : {NoWriter},
                  EnableDebug : {FALSE}, EnableTrace : {FALSE}]
    /\ \E r \in {withFields(Heap([i \in StoreIds |-> EmptyFields], {}), NilValue, RootKv)} :
       \E cs \in {<<Background, [val |-> r.val, parent |-> 1, by |-> "WithFields", kv |-> RootKv]>>} :
       \E h \in {Collect(r.h, Referenced(cs))} :
          /\ ctxs = cs
          /\ stores = h.stores
          /\ live = h.live
    /\ last = NoCall
    /\ procs = [p \in Chains |-> IdleProc(RootCtx)]

\* chain p calls lgr.WithFields(ctx, kv...) on its current context
CallWithFields(p, kv) ==
    /\ procs[p].pc = "idle"
    /\ Len(ctxs) + Cardinality({ q \in Chains : procs[q].op = "WithFields" }) < MaxCtx + 2
    /\ procs' = [procs EXCEPT ![p].pc = "wf_copy", ![p].op = "WithFields", ![p].kv = kv]
    /\ UNCHANGED <<sabot, stores, live, ctxs, last>>

\* fields := copyFields(ctx)
WfCopy(p) ==
    /\ procs[p].pc = "wf_copy"
    /\ \E r \in {copyFields(Heap(stores, live), ctxs[procs[p].cur].val)} :
          /\ stores' = r.h.stores
          /\ live' = r.h.live
          /\ procs' = [procs EXCEPT ![p].pc = "wf_merge", ![p].fields = r.ref]
    /\ UNCHANGED <<sabot, ctxs, last>>

\* kvFields := newFields(kv); for key, val := range kvFields { fields[key] = val }
WfMerge(p) ==
    /\ procs[p].pc = "wf_merge"
    /\ \E kvFields \in {Alloc(Heap(stores, live), newFields(procs[p].kv))} :
       \E h \in {[kvFields.h EXCEPT !.stores[procs[p].fields] =
                     RangeAssign(kvFields.h.stores[procs[p].fields],
                                 kvFields.h.stores[kvFields.ref])]} :
       \E g \in {Collect(h, live)} :
          /\ stores' = g.stores
          /\ live' = g.live
    /\ procs' = [procs EXCEPT ![p].pc = "wf_ret"]
    /\ UNCHANGED <<sabot, ctxs, last>>

\* return context.WithValue(ctx, LogKey{}, fields); the caller takes it as its context
WfReturn(p) ==
    /\ procs[p].pc = "wf_ret"
    /\ ctxs' = Append(ctxs, [val |-> FieldsValue(procs[p].fields), parent |-> procs[p].cur,
                             by |-> "WithFields", kv |-> procs[p].kv])
    /\ procs' = [procs EXCEPT ![p] = [IdleProc(Len(ctxs) + 1) EXCEPT
                                         !.made = procs[p].made \cup {Len(ctxs) + 1}]]
    /\ UNCHANGED <<sabot, stores, live, last>>

\* chain p calls sabot.log(ctx, level, msg, kv) on its current context
CallLog(p, op, level, msg, kv, now) ==
    /\ procs[p].pc = "idle"
    /\ procs' = [procs EXCEPT ![p].pc = "log_get", ![p].op = op, ![p].kv = kv,
                              ![p].level = level, ![p].msg = msg, ![p].now = now]
    /\ UNCHANGED <<sabot, stores, live, ctxs, last>>

\* chain p calls lgr.Info(ctx, msg, kv...)
CallInfo(p, msg, kv, now) == CallLog(p, "Info", "info", msg, kv, now)

\* chain p calls lgr.Error(ctx, msg, err, kv...)
CallError(p, msg, err, kv, now) ==
    CallLog(p, "Error", "error", msg, kv \o <<Str("error"), Str(err.text)>>, now)

\* ctxFields := sabot.GetFields(ctx); fields := newFields(kv)
LogGet(p) ==
    /\ procs[p].pc = "log_get"
    /\ \E g \in {getFields(Heap(stores, live), ctxs[procs[p].cur].val)} :
       \E f \in {Alloc(g.h, newFields(procs[p].kv))} :
          /\ stores' = f.h.stores
          /\ live' = f.h.live
          /\ procs' = [procs EXCEPT ![p].pc = "log_merge", ![p].ctxFields = g.ref,
                                    ![p].fields = f.ref]
    /\ UNCHANGED <<sabot, ctxs, last>>

\* for key, val := range ctxFields { fields[key] = val }; msg, level and ts are set
LogMerge(p) ==
    /\ procs[p].pc = "log_merge"
    /\ \E m \in {Put(Put(Put(RangeAssign(stores[procs[p].fields], stores[procs[p].ctxFields]),
                             "msg", Str(procs[p].msg)),
                         "level", Str(procs[p].level)), "ts", Time(procs[p].now))} :
          /\ stores' = [stores EXCEPT ![procs[p].fields] = m]
          /\ procs' = [procs EXCEPT ![p].pc = "log_trunc",
                                    ![p].seen = stores[procs[p].ctxFields],
                                    ![p].merged = m]
    /\ UNCHANGED <<sabot, live, ctxs, last>>

\* fields.truncate(sabot.MaxLen)
LogTruncate(p) ==
    /\ procs[p].pc = "log_trunc"
    /\ \E h \in {truncate(Heap(stores, live), procs[p].fields, sabot.MaxLen)} :
          /\ stores' = h.stores
          /\ live' = h.live
    /\ procs' = [procs EXCEPT ![p].pc = "log_write"]
    /\ UNCHANGED <<sabot, ctxs, last>>

\* the event is marshalled and written, log returns and its maps are garbage
LogWrite(p) ==
    /\ procs[p].pc = "log_write"
    /\ \E h \in {Collect(Heap(stores, live), Referenced(ctxs) \cup OtherTemps(p))} :
          /\ stores' = h.stores
          /\ live' = h.live
    /\ procs' = [procs EXCEPT ![p] = [IdleProc(procs[p].cur) EXCEPT !.made = procs[p].made]]
    /\ UNCHANGED <<sabot, ctxs, last>>

NextConc ==
    \/ \E p \in Chains : \E kv \in ChainKvs(p) : CallWithFields(p, kv)
    \/ \E p \in Chains : WfCopy(p)
    \/ \E p \in Chains : WfMerge(p)
    \/ \E p \in Chains : WfReturn(p)
    \/ \E p \in Chains : \E msg \in Msgs, kv \in ChainLogKvs(p), now \in ConcTimes :
           CallInfo(p, msg, kv, now)
    \/ \E p \in Chains : \E msg \in Msgs, err \in ConcErrs, kv \in ChainLogKvs(p),
                               now \in ConcTimes : CallError(p, msg, err, kv, now)
    \/ \E p \in Chains : LogGet(p)
    \/ \E p \in Chains : LogMerge(p)
    \/ \E p \in Chains : LogTruncate(p)
    \/ \E p \in Chains : LogWrite(p)

SpecConc == InitConc /\ [][NextConc]_vars

-----------------------------------------------------------------------------
(* The emission pipeline with its sinks: every configuration of the logger,  *)
(* all four levels, callers whose lists have spare capacity                    *)

\* key-value lists handed to WithFields
EmitCtxKvs ==
    { <<Str("error"), Str("ctx-error"), Str("level"), Str("warn21")>>,
      <<Str("foo"), Str("bar"), Str("odd")>> }

\* key-value lists handed to Info, Error, Debug and Trace
EmitKvs ==
    { <<>>,
      <<Str("foo"), Str("bar"), Str("odd")>>,
      <<Num("88"), Str("bar")>>,
      <<Str("foo"), Chan("chan int")>>,
      <<Str("ratio"), Float("NaN")>>,
      <<Str("foo"), Str("bar"), Str("big"), Str(LongString),
        Str("count"), Num("12345678901234567"), Str("error"), Str("mine")>> }

EmitMaxLens == { 0, 16 }

\* the enablement flags: <<EnableDebug, EnableTrace>>
EmitFlags == { <<TRUE, FALSE>>, <<FALSE, TRUE>> }

\* elements of capacity beyond the length of the list handed to Error
Spares == { 0, 2 }

InitEmit ==
    /\ \E flags \in EmitFlags :
          sabot \in [MaxLen : EmitMaxLens, Writer : Writers,
                     AltWriter : {NoWriter} \cup Writers,
                     EnableDebug : {flags[1]}, EnableTrace : {flags[2]}]
    /\ \E r \in {withFields(Heap([i \in StoreIds |-> EmptyFields], {}), NilValue, RootKv)} :
       \E cs \in {<<Background, [val |-> r.val, parent |-> 1, by |-> "WithFields", kv |-> RootKv]>>} :
       \E h \in {Collect(r.h, Referenced(cs))} :
          /\ ctxs = cs
          /\ stores = h.stores
          /\ live = h.live
    /\ last = NoCall
    /\ procs = [p \in Chains |-> IdleProc(RootCtx)]

NextEmit ==
    \/ Return
    \/ Ready /\ \E c \in 1 .. Len(ctxs), kv \in EmitCtxKvs : WithFields(c, kv)
    \/ Ready /\ \E c \in 1 .. Len(ctxs), v \in ForeignValues : WithValue(c, v)
    \/ Ready /\ \E c \in 1 .. Len(ctxs) : GetFields(c)
    \/ Ready /\ \E c \in 1 .. Len(ctxs), msg \in Msgs, kv \in EmitKvs, now \in ConcTimes :
                    Info(c, msg, kv, now)
    \/ Ready /\ \E c \in 1 .. Len(ctxs), msg \in Msgs, err \in ConcErrs, kv \in EmitKvs,
                    spare \in Spares, now \in ConcTimes : Error(c, msg, err, kv, spare, now)
    \/ Ready /\ \E c \in 1 .. Len(ctxs), msg \in Msgs, kv \in EmitKvs, now \in ConcTimes :
                    Debug(c, msg, kv, now)
    \/ Ready /\ \E c \in 1 .. Len(ctxs), msg \in Msgs, kv \in EmitKvs, now \in ConcTimes :
                    Trace(c, msg, kv, now)

SpecEmit == InitEmit /\ [][NextEmit]_vars

-----------------------------------------------------------------------------
(* Vocabulary of the properties *)

KeyIndexes(kv) == { i \in 1 .. Len(kv) : i % 2 = 1 }

Malformed(kv) == Len(kv) % 2 # 0 \/ \E i \in KeyIndexes(kv) : kv[i].t # "string"

Unserializable(v) == v.t = "chan"

Serializable(kv) == \A i \in 1 .. Len(kv) : i % 2 = 0 => ~Unserializable(kv[i])

\* the value a serializable value is stored as
Normalized(v) == IF v.t \in PassThrough THEN v ELSE Str(v.s)

\* the keys a well-formed list names
KeysOf(kv) == { kv[i].s : i \in KeyIndexes(kv) }

\* the index of the last pair of kv under key k
LastIndexOf(kv, k) ==
    CHOOSE i \in KeyIndexes(kv) :
        kv[i].s = k /\ \A j \in KeyIndexes(kv) : kv[j].s = k => j <= i

\* the fields a well-formed list of serializable values asks for
ListFields(kv) == [k \in KeysOf(kv) |-> Normalized(kv[LastIndexOf(kv, k) + 1])]

\* a overlaid with b, b winning on every common key
LaterWins(a, b) ==
    [k \in DOMAIN a \cup DOMAIN b |-> IF k \in DOMAIN b THEN b[k] ELSE a[k]]

DiagnosticKeys == {"logerror", "keyvals"}

ReservedKeys == {"msg", "level", "ts"}

NoticeLen == 13

\* what truncation under maxLen makes of one value
Truncated(v, maxLen) ==
    IF maxLen > NoticeLen /\ v.t = "string" /\ Len(v.s) > maxLen - NoticeLen
    THEN Str(SubSeq(v.s, 1, maxLen - NoticeLen) \o "--truncated--")
    ELSE v

Emission == last.op \in {"Info", "Error"}

\* the list newFields was given by the last call
LogKv ==
    IF last.op = "Error" THEN last.kv \o <<Str("error"), Str(last.err.text)>> ELSE last.kv

-----------------------------------------------------------------------------
(* C1 *)

\* C1: no library operation changes the store attached to an existing context:
\* across every step each context is still there, GetFields on it returns the
\* same field set, and every map a context refers to is still live and unchanged.
C1_CopyOnWrite ==
    [][ /\ \A c \in 1 .. Len(ctxs) :
              /\ c <= Len(ctxs')
              /\ ctxs'[c] = ctxs[c]
              /\ FieldsAt(stores', live', ctxs', c) = FieldsOf(c)
        /\ \A s \in Referenced(ctxs) : s \in live' /\ stores'[s] = stores[s] ]_vars

\* an emission that truncated, on a context with a store from which a context
\* was derived with a malformed list
C1_Witness ==
    /\ Emission
    /\ last.emitted # last.merged
    /\ last.ctx < Len(ctxs)
    /\ ctxs[last.ctx].val.kind = "Fields"
    /\ \E d \in 1 .. Len(ctxs) :
          ctxs[d].by = "WithFields" /\ ctxs[d].parent = last.ctx /\ Malformed(ctxs[d].kv)

-----------------------------------------------------------------------------
(* C2 *)

\* C2: for well-formed lists A and B of serializable values, the fields of
\* WithFields(WithFields(C, A), B) are the fields of C overlaid with A and then
\* with B, the later source winning on every common key.
C2_Accumulation ==
    \A d \in 1 .. Len(ctxs) :
        LET c == ctxs[d].parent IN
        (/\ ctxs[d].by = "WithFields"
         /\ ctxs[c].by = "WithFields"
         /\ ~Malformed(ctxs[d].kv) /\ Serializable(ctxs[d].kv)
         /\ ~Malformed(ctxs[c].kv) /\ Serializable(ctxs[c].kv))
        => FieldsOf(d) =
              LaterWins(LaterWins(FieldsOf(ctxs[c].parent), ListFields(ctxs[c].kv)),
                        ListFields(ctxs[d].kv))

\* C has fields, A overrides one of them, B overrides one of A's and names a key twice
C2_Witness ==
    \E d \in 1 .. Len(ctxs) :
        LET c == ctxs[d].parent IN
        /\ ctxs[d].by = "WithFields" /\ ctxs[c].by = "WithFields"
        /\ ~Malformed(ctxs[d].kv) /\ Serializable(ctxs[d].kv)
        /\ ~Malformed(ctxs[c].kv) /\ Serializable(ctxs[c].kv)
        /\ ctxs[c].parent > 1
        /\ KeysOf(ctxs[c].kv) \cap DOMAIN FieldsOf(ctxs[c].parent) # {}
        /\ KeysOf(ctxs[d].kv) \cap KeysOf(ctxs[c].kv) # {}
        /\ Cardinality(KeysOf(ctxs[d].kv)) * 2 < Len(ctxs[d].kv)

-----------------------------------------------------------------------------
(* C3 *)

\* the fields of the root context plus the lists that led from it to ctxs[d]
RECURSIVE LineageFields(_)
LineageFields(d) ==
    IF d = RootCtx THEN ListFields(RootKv)
    ELSE LaterWins(LineageFields(ctxs[d].parent), ListFields(ctxs[d].kv))

\* the contexts from ctxs[d] up to the root context
RECURSIVE Lineage(_)
Lineage(d) == IF d <= RootCtx THEN {d} ELSE {d} \cup Lineage(ctxs[d].parent)

\* fields holds something only chain q supplied
ShowsChain(fields, q) ==
    \/ PrivateKey(q) \in DOMAIN fields
    \/ \E k \in DOMAIN fields : fields[k] = Str(ChainTag(q))

\* the call in flight of chain p writes the map procs[p].fields
Writing(p) == procs[p].pc \in {"wf_merge", "wf_ret", "log_merge", "log_trunc", "log_write"}

\* C3: chains that interleave the steps of WithFields, Info and Error from a
\* shared root context stay isolated: the root context keeps its fields; every
\* context a chain made is derived from the chain's own contexts and holds
\* exactly the root's fields overlaid with the chain's own lists; what an
\* emission reads and merges from the chain's context is exactly that; nothing
\* another chain supplied shows in them; and a call writes only into a map no
\* context and no other call refers to.
C3_Isolation ==
    /\ FieldsOf(RootCtx) = ListFields(RootKv)
    /\ \A p \in Chains :
          /\ \A d \in procs[p].made :
                /\ Lineage(d) \subseteq procs[p].made \cup {RootCtx}
                /\ FieldsOf(d) = LineageFields(d)
                /\ \A q \in Chains \ {p} : ~ShowsChain(FieldsOf(d), q)
          /\ \A q \in Chains : ~ShowsChain(FieldsOf(RootCtx), q)
          /\ procs[p].pc \in {"log_trunc", "log_write"} =>
                /\ procs[p].seen = LineageFields(procs[p].cur)
                /\ \A k \in DOMAIN procs[p].seen \ ReservedKeys :
                      procs[p].merged[k] = procs[p].seen[k]
                /\ \A q \in Chains \ {p} : ~ShowsChain(procs[p].merged, q)
          /\ procs[p].pc = "log_write" =>
                stores[procs[p].fields] =
                    [k \in DOMAIN procs[p].merged |->
                        Truncated(procs[p].merged[k], sabot.MaxLen)]
          /\ Writing(p) =>
                procs[p].fields \notin Referenced(ctxs) \cup OtherTemps(p)

\* one chain is about to write a truncated event on a context of its own that
\* overrides a field of the root, while the other one has merged its list into
\* its copy of the root's fields and has not returned yet
C3_Witness ==
    \E p \in Chains : \E q \in Chains \ {p} :
        /\ procs[p].cur \in procs[p].made
        /\ FieldsOf(procs[p].cur)["app_id"] # FieldsOf(RootCtx)["app_id"]
        /\ procs[p].pc = "log_write"
        /\ stores[procs[p].fields] # procs[p].merged
        /\ procs[q].pc = "wf_ret"
        /\ procs[q].cur = RootCtx
        /\ stores[procs[q].fields] # FieldsOf(RootCtx)

-----------------------------------------------------------------------------
(* C4 *)

\* the keys common to the context's fields and the call-site list, reserved keys aside
CommonKeys ==
    (DOMAIN last.ctxFields \cap { LogKv[i].s : i \in { j \in KeyIndexes(LogKv) : LogKv[j].t = "string" } })
        \ ReservedKeys

\* C4 as stated: on every emission each common key is emitted with the value
\* the context holds for it.
C4_Original ==
    Emission => \A k \in CommonKeys : last.emitted[k] = last.ctxFields[k]

\* C4: on every emission each common key holds the context's value in the
\* merged field set and is emitted with that value as truncation under MaxLen
\* leaves it, whatever value the call-site list gave.
C4_MergePrecedence ==
    Emission => \A k \in CommonKeys :
        /\ last.merged[k] = last.ctxFields[k]
        /\ last.emitted[k] = Truncated(last.ctxFields[k], sabot.MaxLen)

\* a common key with differing values in the two sources, the context's one truncated
C4_Witness ==
    /\ Emission
    /\ \E k \in CommonKeys :
          /\ k \in DOMAIN last.built
          /\ last.built[k] # last.ctxFields[k]
          /\ last.emitted[k] # last.ctxFields[k]

-----------------------------------------------------------------------------
(* C5 *)

\* C5: on every emission the merged field set holds msg = the message, level =
\* the level tag and ts = the emission time, whatever the context and the list
\* supply under these keys, and what is emitted under them is these values as
\* truncation leaves them.
C5_ReservedWin ==
    Emission =>
        /\ last.merged["msg"] = Str(last.msg)
        /\ last.merged["level"] = Str(IF last.op = "Info" THEN "info" ELSE "error")
        /\ last.merged["ts"] = Time(last.now)
        /\ \A k \in ReservedKeys : last.emitted[k] = Truncated(last.merged[k], sabot.MaxLen)

\* both sources supply reserved keys, with values other than the call's
C5_Witness ==
    /\ Emission
    /\ {"msg", "level", "ts"} \subseteq DOMAIN last.ctxFields
    /\ {"level", "ts"} \subseteq DOMAIN last.built
    /\ \A k \in {"level", "ts"} :
          last.built[k] # last.merged[k] /\ last.ctxFields[k] # last.merged[k]
    /\ last.ctxFields["msg"] # last.merged["msg"]

-----------------------------------------------------------------------------
(* C6 *)

\* C6: the field set built from a list of odd length, or with a key that is not
\* a string at any position, consists of exactly the fields logerror and keyvals.
C6_Malformed ==
    (last.op \in {"WithFields", "Info", "Error"} /\ Malformed(LogKv))
        => /\ DOMAIN last.built = DiagnosticKeys
           /\ last.built["keyvals"] = Str(GoSyntaxSlice(LogKv))
           /\ last.built["logerror"].t = "string"

\* an even list whose first pair is well-formed and whose second key is no string
C6_Witness ==
    /\ last.op = "Info"
    /\ Len(last.kv) = 4
    /\ last.kv[1].t = "string"
    /\ last.kv[3].t # "string"
    /\ DOMAIN last.built = DiagnosticKeys

-----------------------------------------------------------------------------
(* C7 *)

\* C7 as stated: WithFields with a malformed list keeps every field of the
\* context with its value.
C7_Original ==
    \A d \in 1 .. Len(ctxs) :
        (ctxs[d].by = "WithFields" /\ Malformed(ctxs[d].kv))
        => \A k \in DOMAIN FieldsOf(ctxs[d].parent) :
              k \in DOMAIN FieldsOf(d) /\ FieldsOf(d)[k] = FieldsOf(ctxs[d].parent)[k]

\* C7: WithFields with a malformed list keeps every field of the context other
\* than logerror and keyvals with its value, adds no other field, and holds
\* under logerror and keyvals the diagnostics of the faulty call.
C7_DiagnosticsKeepFields ==
    \A d \in 1 .. Len(ctxs) :
        (ctxs[d].by = "WithFields" /\ Malformed(ctxs[d].kv))
        => LET old == FieldsOf(ctxs[d].parent)
               new == FieldsOf(d)
           IN /\ DOMAIN new = DOMAIN old \cup DiagnosticKeys
              /\ \A k \in DOMAIN old \ DiagnosticKeys : new[k] = old[k]
              /\ new["keyvals"] = Str(GoSyntaxSlice(ctxs[d].kv))
              /\ new["logerror"].t = "string"

\* a malformed list on a context that holds fields, diagnostics of an earlier call included
C7_Witness ==
    \E d \in 1 .. Len(ctxs) :
        /\ ctxs[d].by = "WithFields" /\ Malformed(ctxs[d].kv)
        /\ DiagnosticKeys \subseteq DOMAIN FieldsOf(ctxs[d].parent)
        /\ DOMAIN FieldsOf(ctxs[d].parent) \ DiagnosticKeys # {}

-----------------------------------------------------------------------------
(* C8 *)

\* the key positions of kv whose value cannot be serialized
FailingIndexes(kv) == { i \in KeyIndexes(kv) : Unserializable(kv[i + 1]) }

FailingKey(kv) == kv[CHOOSE i \in FailingIndexes(kv) : TRUE].s

\* a well-formed list was given, with exactly one value that cannot be serialized
OneFailure ==
    /\ last.op \in {"WithFields", "Info", "Error"}
    /\ ~Malformed(LogKv)
    /\ Cardinality(FailingIndexes(LogKv)) = 1

\* C8 as stated: the field set built from such a list has no field k, has the
\* fields logerror and keyvals, and holds every other pair with its normalized value.
C8_Original ==
    OneFailure =>
        /\ FailingKey(LogKv) \notin DOMAIN last.built
        /\ DiagnosticKeys \subseteq DOMAIN last.built
        /\ \A i \in KeyIndexes(LogKv) \ FailingIndexes(LogKv) :
              /\ LogKv[i].s \in DOMAIN last.built
              /\ last.built[LogKv[i].s] = Normalized(LogKv[i + 1])

\* k is the key of one pair only, and no pair is named logerror or keyvals
OneFailureApart ==
    /\ OneFailure
    /\ \A i \in KeyIndexes(LogKv) \ FailingIndexes(LogKv) :
          LogKv[i].s \notin {FailingKey(LogKv)} \cup DiagnosticKeys

\* C8: when k is the key of no other pair and no pair of the list is named
\* logerror or keyvals, the field set built has no field k, has the fields
\* logerror and keyvals, and holds every other key of the list with the
\* normalized value of its last pair, before or after k.
C8_Unserializable ==
    OneFailureApart =>
        LET k    == FailingKey(LogKv)
            rest == KeysOf(LogKv) \ {k}
        IN /\ DOMAIN last.built = rest \cup DiagnosticKeys
           /\ \A o \in rest : last.built[o] = Normalized(LogKv[LastIndexOf(LogKv, o) + 1])
           /\ last.built["keyvals"] = Str(GoSyntaxSlice(LogKv))
           /\ last.built["logerror"].t = "string"

\* the value that fails stands between two pairs that are held
C8_Witness ==
    /\ OneFailureApart
    /\ \E i \in FailingIndexes(LogKv) :
          /\ i > 1 /\ LogKv[i - 2].s \in DOMAIN last.built
          /\ i + 2 < Len(LogKv) /\ LogKv[i + 2].s \in DOMAIN last.built

-----------------------------------------------------------------------------
(* C9 *)

\* C9: with MaxLen above the length of the notice, every string field of the
\* merged set longer than MaxLen is emitted as its first MaxLen - 13 bytes
\* followed by the notice, MaxLen bytes in all.
C9_Truncation ==
    (Emission /\ sabot.MaxLen > NoticeLen) =>
        \A k \in DOMAIN last.merged :
            (last.merged[k].t = "string" /\ Len(last.merged[k].s) > sabot.MaxLen)
            => /\ last.emitted[k] =
                    Str(SubSeq(last.merged[k].s, 1, sabot.MaxLen - NoticeLen) \o "--truncated--")
               /\ Len(last.emitted[k].s) = sabot.MaxLen

\* a field of the context and a field of the call site, both longer than MaxLen
C9_Witness ==
    /\ Emission
    /\ sabot.MaxLen > NoticeLen
    /\ \E k \in DOMAIN last.ctxFields :
          /\ last.merged[k] = last.ctxFields[k]
          /\ last.merged[k].t = "string" /\ Len(last.merged[k].s) > sabot.MaxLen
          /\ Len(last.emitted[k].s) = sabot.MaxLen
    /\ \E k \in (DOMAIN last.built \ DOMAIN last.ctxFields) \ ReservedKeys :
          /\ last.merged[k].t = "string" /\ Len(last.merged[k].s) > sabot.MaxLen
          /\ Len(last.emitted[k].s) = sabot.MaxLen

-----------------------------------------------------------------------------
(* C10 *)

\* C10: with MaxLen at most the length of the notice, zero and negative
\* values included, an emission emits the merged set as it is.
C10_TruncationGuard ==
    (Emission /\ sabot.MaxLen <= NoticeLen) => last.emitted = last.merged

\* a negative MaxLen and a string field longer than the notice
C10_Witness ==
    /\ Emission
    /\ sabot.MaxLen < 0
    /\ \E k \in DOMAIN last.merged :
          last.merged[k].t = "string" /\ Len(last.merged[k].s) > NoticeLen

-----------------------------------------------------------------------------
(* Vocabulary of the properties about what is written *)

\* the last call was an emission that went past its level gate
Emitting ==
    \/ last.op \in {"Info", "Error"}
    \/ last.op = "Debug" /\ sabot.EnableDebug
    \/ last.op = "Trace" /\ sabot.EnableTrace

\* the Write calls the last call made on one sink, in order
ToSink(sink) == SelectSeq(last.writes, LAMBDA w : w.sink = sink)

\* sub occurs in s
Contains(s, sub) ==
    \E i \in 1 .. (Len(s) - Len(sub) + 1) : SubSeq(s, i, i + Len(sub) - 1) = sub

-----------------------------------------------------------------------------
(* C11 *)

\* C11: every emission writes to the primary sink first and once; the
\* secondary sink is handed one line exactly when the primary write failed and
\* a secondary sink is configured, a line that begins with logerror and
\* contains the write error; otherwise the secondary sink is handed nothing.
C11_WriteFallback ==
    Emitting =>
        /\ Len(last.writes) >= 1
        /\ last.writes[1].sink = "Writer"
        /\ Len(ToSink("Writer")) = 1
        /\ IF sabot.Writer = "failWriter" /\ sabot.AltWriter # NoWriter
           THEN /\ Len(ToSink("AltWriter")) = 1
                /\ SubSeq(ToSink("AltWriter")[1].line.pre, 1, 8) = "logerror"
                /\ Contains(ToSink("AltWriter")[1].line.pre, WriteError.text)
           ELSE ToSink("AltWriter") = <<>>

\* the primary write failed, the secondary sink is configured and was handed a
\* line that renders fields of the context and of the call
C11_Witness ==
    /\ Emitting
    /\ sabot.Writer = "failWriter"
    /\ sabot.AltWriter = "bytes.Buffer"
    /\ Len(last.writes) = 2
    /\ last.writes[2].sink = "AltWriter"
    /\ {"app_id", "big", "msg"} \subseteq DOMAIN last.writes[2].line.body

-----------------------------------------------------------------------------
(* C12 *)

\* C12: Info and Error run to their end and return normally, whatever the
\* context, the key-value list (well-formed, odd, with a key that is no string,
\* with a value that cannot be serialized) and the sinks (a secondary sink or
\* none, writes that succeed or fail): no step panics and the document is
\* handed to the primary sink.
C12_NeverFails ==
    last.op \in {"Info", "Error"} =>
        /\ ~last.panic
        /\ Len(last.writes) >= 1
        /\ last.writes[1].sink = "Writer"

\* Error with a value that cannot be serialized, on a context that carries a
\* foreign value, both sinks failing
C12_Witness ==
    /\ last.op = "Error"
    /\ ctxs[last.ctx].val.kind = "other"
    /\ Len(last.kv) = 2 /\ last.kv[2].t = "chan"
    /\ sabot.Writer = "failWriter"
    /\ sabot.AltWriter = "failWriter"
    /\ Len(last.writes) = 2

-----------------------------------------------------------------------------
(* C13 *)

\* the last call handed the primary sink one event, of the given level: the
\* field set of the event holds the level, and hands it on as truncation leaves it
OneEventOfLevel(level) ==
    /\ Len(ToSink("Writer")) = 1
    /\ last.merged["level"] = Str(level)
    /\ last.emitted["level"] = Truncated(Str(level), sabot.MaxLen)

-----------------------------------------------------------------------------
(* C14 *)

\* C14 as stated: the field set of every Error emission holds the field error,
\* its value the full-detail rendering of the error the call was given, for
\* every context and every key-value list.
C14_Original ==
    last.op = "Error" =>
        /\ "error" \in DOMAIN last.merged
        /\ last.merged["error"] = Str(last.err.text)

-----------------------------------------------------------------------------
(* C15 *)

\* the level tags
Levels == {"info", "error", "debug", "trace"}

\* the level tag of the last call
LevelOf(op) ==
    CASE op = "Info"  -> "info"
      [] op = "Error" -> "error"
      [] op = "Debug" -> "debug"
      [] op = "Trace" -> "trace"

\* C15 as stated: in every emitted event, whatever MaxLen is, level is the
\* tag of the call, one of info, error, debug and trace, and msg is the
\* message passed to the call.
C15_Original ==
    Emitting =>
        /\ last.emitted["level"].s \in Levels
        /\ last.emitted["level"] = Str(LevelOf(last.op))
        /\ last.emitted["msg"] = Str(last.msg)

\* C15: in the field set of every emitted event, whatever MaxLen is, level is
\* the tag of the call and msg the message passed to the call, each as
\* truncation under MaxLen leaves it; a document that json.Marshal produced
\* holds the two as JSON strings of exactly these contents.
C15_WireFormat ==
    Emitting =>
        /\ last.emitted["level"] = Truncated(Str(LevelOf(last.op)), sabot.MaxLen)
        /\ last.emitted["msg"] = Truncated(Str(last.msg), sabot.MaxLen)
        /\ last.writes[1].line.form = "json" =>
              /\ last.writes[1].line.body["level"] =
                    JString(Truncated(Str(LevelOf(last.op)), sabot.MaxLen).s)
              /\ last.writes[1].line.body["msg"] =
                    JString(Truncated(Str(last.msg), sabot.MaxLen).s)

\* an event whose level and msg were both cut, written as JSON, on a context
\* and with a list that both name level
C15_Witness ==
    /\ Emitting
    /\ last.writes[1].line.form = "json"
    /\ last.writes[1].line.body["level"] # JString(LevelOf(last.op))
    /\ last.writes[1].line.body["msg"] # JString(last.msg)
    /\ "level" \in DOMAIN last.ctxFields

-----------------------------------------------------------------------------
(* C16 *)

\* C16 as stated: every value of a field set made by WithFields or built from
\* the list of an emission is one json.Marshal accepts, so every emission
\* writes the marshalled field set and never the hand-built document.
C16_Original ==
    /\ \A c \in 1 .. Len(ctxs) : ctxs[c].by = "WithFields" => Rejected(FieldsOf(c)) = {}
    /\ Emitting =>
          /\ Rejected(last.built) = {}
          /\ last.writes[1].line.form = "json"

-----------------------------------------------------------------------------
(* C17 *)

-----------------------------------------------------------------------------
(* C18 *)

\* the field set that reports the foreign value "garbage"
Mismatch == [k \in {"logerror"} |-> Str("failed to assert type Fields on \"garbage\"")]

\* what a context without a field set of the logger's yields
Fallback(c) == IF ctxs[c].val.kind = "nil" THEN EmptyFields ELSE Mismatch

\* C18: GetFields returns the empty field set on a context that carries
\* nothing and, on a context whose LogKey holds a value that is no field set,
\* the set whose one field logerror reports the type mismatch; WithFields on
\* such a context yields that set overlaid with the fields of its list, and an
\* emission on it reads that set, merges it and writes its document without
\* a panic.
C18_ForeignValue ==
    /\ \A c \in 1 .. Len(ctxs) : ctxs[c].val.kind # "Fields" => FieldsOf(c) = Fallback(c)
    /\ (last.op = "GetFields" /\ ctxs[last.ctx].val.kind # "Fields") =>
          last.ctxFields = Fallback(last.ctx)
    /\ \A d \in 1 .. Len(ctxs) :
          (ctxs[d].by = "WithFields" /\ ctxs[ctxs[d].parent].val.kind # "Fields") =>
              FieldsOf(d) = LaterWins(Fallback(ctxs[d].parent), newFields(ctxs[d].kv))
    /\ (Emitting /\ ctxs[last.ctx].val.kind # "Fields") =>
          /\ last.ctxFields = Fallback(last.ctx)
          /\ \A k \in DOMAIN Fallback(last.ctx) : last.merged[k] = Fallback(last.ctx)[k]
          /\ ~last.panic
          /\ Len(ToSink("Writer")) = 1

\* an emission on a context that carries a foreign value, from which a
\* context was derived by WithFields
C18_Witness ==
    /\ Emitting
    /\ ctxs[last.ctx].val.kind = "other"
    /\ last.merged["logerror"] = Mismatch["logerror"]
    /\ \E d \in 1 .. Len(ctxs) :
          /\ ctxs[d].by = "WithFields" /\ ctxs[d].parent = last.ctx
          /\ ~Malformed(ctxs[d].kv)
          /\ FieldsOf(d)["logerror"] = Mismatch["logerror"]

-----------------------------------------------------------------------------
(* C19 *)

\* C19 as stated: when Error returns, every element of the backing array of
\* the caller's list, the spare ones beyond its length included, holds the
\* value it held before the call.
C19_Original ==
    last.op = "Error" =>
        /\ Len(last.after) = Len(last.before)
        /\ \A i \in 1 .. Len(last.before) : last.after[i] = last.before[i]

-----------------------------------------------------------------------------
(* C20 *)

\* the keys of the merged set of the last call that hold a string
StringKeys == { k \in DOMAIN last.merged : last.merged[k].t = "string" }

Larger(a, b) == IF a < b THEN b ELSE a

====
